---- MODULE Spec2Model ----
(***************************************************************************)
(* A model of novel_splitter.core.NovelSplitter: the four-stage workflow   *)
(* (identify_candidates -> confirm_with_llm -> prompt_user ->              *)
(* execute_split) that run() wires into a StateGraph, with the file        *)
(* system, the LLM service and the console as the environment.             *)
(*                                                                         *)
(* A raw text line is the record [pad, pat, kw, len]:                      *)
(*   pad  number of surrounding whitespace characters (incl. the newline)  *)
(*   pat  the trimmed text matches chapter_pattern                         *)
(*   kw   the lower-cased trimmed text contains one of the keywords        *)
(*   len  number of characters of the trimmed text                         *)
(***************************************************************************)
EXTENDS Integers, Sequences, FiniteSets, TLC

\* ------------------------------------------------------------------------
\* Bounds of the model
\* ------------------------------------------------------------------------
MaxLines == 3
MaxBatch == 2
MaxLiveLines == 2

\* ------------------------------------------------------------------------
\* Program constants
\* ------------------------------------------------------------------------
ChapterMaxLen == 50
KeywordMaxLen == 30

\* ------------------------------------------------------------------------
\* Lines and files
\* ------------------------------------------------------------------------
BlankLine   == [pad |-> 1, pat |-> FALSE, kw |-> FALSE, len |-> 0]
ChapterLine == [pad |-> 2, pat |-> TRUE,  kw |-> FALSE, len |-> 49]
LongChapter == [pad |-> 1, pat |-> TRUE,  kw |-> TRUE,  len |-> 50]
KeywordLine == [pad |-> 1, pat |-> FALSE, kw |-> TRUE,  len |-> 29]
LongKeyword == [pad |-> 1, pat |-> FALSE, kw |-> TRUE,  len |-> 30]
PlainLine   == [pad |-> 1, pat |-> FALSE, kw |-> FALSE, len |-> 12]

LineKinds == {BlankLine, ChapterLine, LongChapter, KeywordLine, LongKeyword, PlainLine}

Files == UNION {[1..n -> LineKinds] : n \in 0..MaxLines}

Range(s) == {s[j] : j \in DOMAIN s}

\* str.strip(): the text without its surrounding whitespace
strip(line) == [line EXCEPT !.pad = 0]

\* chapter_pattern.match(line_text)
chapter_pattern_match(line_text) == line_text.pat

\* any(kw in line_text.lower() for kw in keywords)
has_keyword(line_text) == line_text.kw

\* Rule 1 or Rule 2 of the detector, on a trimmed non-blank line
is_candidate(line_text) ==
    \/ chapter_pattern_match(line_text) /\ line_text.len < ChapterMaxLen
    \/ has_keyword(line_text) /\ line_text.len < KeywordMaxLen

\* A variant of the scan that numbers only the non-blank lines.
RECURSIVE scan_nonblank_index(_, _, _, _)
scan_nonblank_index(lines, j, i, candidates) ==
    IF j > Len(lines) THEN candidates
    ELSE LET line_text == strip(lines[j]) IN
         IF line_text.len = 0
            THEN scan_nonblank_index(lines, j + 1, i, candidates)
         ELSE IF is_candidate(line_text)
            THEN scan_nonblank_index(lines, j + 1, i + 1, Append(candidates, <<i, line_text>>))
         ELSE scan_nonblank_index(lines, j + 1, i + 1, candidates)

\* for i, line in enumerate(f): ... candidates.append((i, line_text))
\* j is the 1-based position in the sequence, i = j - 1 the value of enumerate
RECURSIVE scan_from(_, _, _)
scan_from(lines, j, candidates) ==
    IF j > Len(lines) THEN candidates
    ELSE LET i == j - 1
             line_text == strip(lines[j]) IN
         IF line_text.len = 0
            THEN scan_from(lines, j + 1, candidates)
         ELSE IF is_candidate(line_text)
            THEN scan_from(lines, j + 1, Append(candidates, <<i, line_text>>))
         ELSE scan_from(lines, j + 1, candidates)

\* The scan with enumerate() applied after the blank lines were dropped.
scan_skipping_blank(lines) == scan_nonblank_index(lines, 1, 0, <<>>)

scan(lines) == scan_from(lines, 1, <<>>)

\* sorted(list(set(candidates)), key=lambda x: x[0])
sorted_unique(candidates) ==
    LET S == Range(candidates) IN
    CHOOSE s \in [1..Cardinality(S) -> S] :
        /\ Range(s) = S
        /\ \A a, b \in 1..Cardinality(S) : a < b => s[a][1] <= s[b][1]

\* _node_identify_candidates on a readable file
identify_candidates(lines) == sorted_unique(scan(lines))

\* ------------------------------------------------------------------------
\* The LLM service: what llm.invoke() can produce for one candidate
\* ------------------------------------------------------------------------
JBool(b) == [type |-> "bool", v |-> IF b THEN "true" ELSE "false"]
JNum(n)  == [type |-> "num",  v |-> n]
JStr(t)  == [type |-> "str",  v |-> t]
None     == [type |-> "null", v |-> "null"]
JArr     == [type |-> "arr",  v |-> "[]"]
JObj(f)  == [type |-> "obj",  fields |-> f]

FieldName == "is_chapter_title"

Scalars == {JBool(TRUE), JBool(FALSE), JNum("1"), JNum("0"), JStr("false"), JStr(""), None}

JsonValues ==
    {JBool(TRUE), JArr, JObj(<<>>)} \cup {JObj([k \in {FieldName} |-> x]) : x \in Scalars}

\* response_message.content: a body that is JSON text or is not
Bodies == {[syntax |-> "text"]} \cup {[syntax |-> "json", value |-> x] : x \in JsonValues}

\* llm.invoke(): raises, or returns a message with a body
Responses == {[status |-> "raise"]} \cup {[status |-> "ok", content |-> b] : b \in Bodies}

NoResponse == [status |-> "none"]

\* json.loads(raw_content): the value, or JSONDecodeError
json_loads(raw_content) ==
    IF raw_content.syntax = "json"
       THEN [ok |-> TRUE, value |-> raw_content.value]
       ELSE [ok |-> FALSE]

\* dict.get(key): the value, or None when the key is absent
dict_get(d, key) == IF key \in DOMAIN d.fields THEN d.fields[key] ELSE None

\* Python truth value of a JSON scalar
truthy(x) ==
    CASE x.type = "bool" -> x.v = "true"
      [] x.type = "num"  -> x.v # "0"
      [] x.type = "str"  -> x.v # ""
      [] x.type = "null" -> FALSE
      [] OTHER           -> FALSE

\* The body of the try block raises (lines 105-113 and the .get of line 115)
classification_raises(r) ==
    \/ r.status = "raise"
    \/ /\ r.status = "ok"
       /\ \/ ~json_loads(r.content).ok
          \/ json_loads(r.content).value.type # "obj"

\* if result.get("is_chapter_title"):
is_confirmed(r) ==
    /\ ~classification_raises(r)
    /\ truthy(dict_get(json_loads(r.content).value, FieldName))

\* ------------------------------------------------------------------------
\* The console: what input() can produce
\* ------------------------------------------------------------------------
Answers == {"y", "YES", "n", "", " y"}

ConsoleEvents ==
    {[kind |-> "line", text |-> a] : a \in Answers}
        \cup {[kind |-> "KeyboardInterrupt", text |-> ""], [kind |-> "EOFError", text |-> ""]}

NoConsole == [kind |-> "none", text |-> ""]

\* str.lower()
lower(t) ==
    CASE t = "YES" -> "yes"
      [] t = "Y"   -> "y"
      [] t = "N"   -> "n"
      [] OTHER     -> t

\* A variant of line 150 that takes every answer but "n" as consent.
answer_is_yes_unless_n(answer) == lower(answer) # "n"

\* confirmed = answer in ['y', 'yes'], answer being input(...).lower()
answer_is_yes(answer) == lower(answer) \in {"y", "yes"}

\* ------------------------------------------------------------------------
\* State
\* ------------------------------------------------------------------------
VARIABLES
    pc,              \* node about to run, or position inside a node, or "END"
    trace,           \* the nodes the graph has entered, in order
    result,          \* how run() came back: "none", "input_missing", "finished", "exception"
    log,             \* the records given to logger.error / logger.critical
    state,           \* the GraphState threaded through the graph
    source,          \* the lines of the file at filepath
    confirmed,       \* _node_confirm_with_llm: the local list confirmed
    ci,              \* _node_confirm_with_llm: 1-based position of the loop in candidates
    resp,            \* the outcome of llm.invoke() the loop body is working on
    requests,        \* the candidates sent to the LLM, in order
    table_shown,     \* the preview table was printed
    console,         \* the last outcome of input()
    all_lines,       \* _node_execute_split: f.readlines()
    wi,              \* _node_execute_split: 1-based position of the loop in chapters
    relative_paths,  \* _node_execute_split: the local list relative_paths
    chapter_titles,  \* _node_execute_split: the local list chapter_titles
    dirs,            \* directories that exist under output_dir
    made,            \* directories created by os.makedirs in this run
    files,           \* segment files on disk: (task_id, n) -> lines written
    metadata,        \* metadata files written, each [complete, path, content]
    batch            \* main(): the files found, how many were started, the runs that came back

vars == <<pc, trace, result, log, state, source, confirmed, ci, resp, requests,
          table_shown, console, all_lines, wi, relative_paths, chapter_titles,
          dirs, made, files, metadata, batch>>

confirm_vars == <<confirmed, ci, resp, requests>>
prompt_vars  == <<table_shown, console>>
split_vars   == <<all_lines, wi, relative_paths, chapter_titles>>
disk_vars    == <<dirs, made, files, metadata>>

TaskId    == "task-1"
StartTime == "t0"
EndTime   == "t1"
FilePath  == "novel.txt"
OutputDir == "results"

\* initial_state of run()
initial_state(auto_confirm) ==
    [filepath |-> FilePath, output_dir |-> OutputDir, candidates |-> <<>>,
     confirmed_chapters |-> <<>>, user_confirmed |-> FALSE,
     auto_confirm |-> auto_confirm, task_id |-> TaskId, start_time |-> StartTime]

split_data_path(st) == <<st.output_dir, "splitdata", st.task_id>>
metadata_path(st)   == <<st.output_dir, "metadata">>

\* The error records of the code, n being the line or file number they name
MsgInputMissing   == [msg |-> "Input file does not exist", n |-> 0]
MsgFileNotFound   == [msg |-> "File not found", n |-> 0]
MsgLineFailed(n)  == [msg |-> "Failed to process line", n |-> n]
MsgPrepareFailed  == [msg |-> "Failed to read source file or create directories.", n |-> 0]
MsgWriteFailed(n) == [msg |-> "Failed to write chapter file", n |-> n]
MsgMetaFailed     == [msg |-> "Failed to write metadata file", n |-> 0]
MsgUnhandled      == [msg |-> "An unhandled exception occurred during workflow execution.", n |-> 0]

Init ==
    /\ pc = "idle"
    /\ trace = <<>>
    /\ result = "none"
    /\ log = <<>>
    /\ state = initial_state(FALSE)
    /\ source = <<>>
    /\ confirmed = <<>>
    /\ ci = 1
    /\ resp = NoResponse
    /\ requests = <<>>
    /\ table_shown = FALSE
    /\ console = NoConsole
    /\ all_lines = <<>>
    /\ wi = 1
    /\ relative_paths = <<>>
    /\ chapter_titles = <<>>
    /\ dirs = {}
    /\ made = {}
    /\ files = <<>>
    /\ metadata = <<>>
    /\ batch = [active |-> FALSE, paths |-> <<>>, found_files_count |-> 0, done |-> <<>>]

\* ------------------------------------------------------------------------
\* The graph: edges and what app.invoke does between two nodes
\* ------------------------------------------------------------------------
\* A variant of the edge that always continues to the prompt.
should_continue_always(st) == "continue_to_prompt"

should_continue_after_llm(st) ==
    IF Len(st.confirmed_chapters) > 0 THEN "continue_to_prompt" ELSE "end"

\* A variant of the edge that always continues to the split.
should_split_always(st) == "continue_to_split"

should_split_after_prompt(st) ==
    IF st.user_confirmed THEN "continue_to_split" ELSE "end"

\* A variant of the wiring that goes back to the detector when nothing was confirmed.
after_confirm_retry(st) ==
    IF should_continue_after_llm(st) = "continue_to_prompt"
       THEN "prompt_user" ELSE "identify_candidates"

\* add_conditional_edges("confirm_with_llm", ...)
after_confirm(st) ==
    IF should_continue_after_llm(st) = "continue_to_prompt" THEN "prompt_user" ELSE "END"

\* A variant of the wiring with a plain edge from prompt_user to execute_split.
after_prompt_plain_edge(st) == "execute_split"

\* add_conditional_edges("prompt_user", ...)
after_prompt(st) ==
    IF should_split_after_prompt(st) = "continue_to_split" THEN "execute_split" ELSE "END"

\* The graph enters the node next, or reaches END and app.invoke returns (line 305)
Goto(next) ==
    /\ pc' = next
    /\ trace' = IF next = "END" THEN trace ELSE Append(trace, next)
    /\ result' = IF next = "END" THEN "finished" ELSE result

\* A variant of run() without the try of lines 303-307: the exception gets out.
UnhandledEscapes ==
    /\ pc' = "END"
    /\ result' = "raised"
    /\ UNCHANGED <<log, trace>>

\* A node raised: run() catches it and logs it (lines 306-307)
Unhandled ==
    /\ pc' = "END"
    /\ result' = "exception"
    /\ log' = Append(log, MsgUnhandled)
    /\ UNCHANGED trace

\* ------------------------------------------------------------------------
\* run(): entry
\* ------------------------------------------------------------------------
Run ==
    /\ pc = "idle"
    /\ \E exists \in BOOLEAN :
         IF ~exists
            THEN /\ pc' = "END"
                 /\ result' = "input_missing"
                 /\ log' = Append(log, MsgInputMissing)
                 /\ UNCHANGED <<trace, state, source, dirs>>
            ELSE /\ \E f \in Files, auto_confirm \in BOOLEAN,
                       pre \in {{}, {metadata_path(initial_state(FALSE))}} :
                      /\ state' = initial_state(auto_confirm)
                      /\ source' = f
                      /\ dirs' = pre
                 /\ pc' = "identify_candidates"
                 /\ trace' = <<"identify_candidates">>
                 /\ UNCHANGED <<result, log>>
    /\ UNCHANGED <<confirm_vars, prompt_vars, split_vars, made, files, metadata>>
    /\ UNCHANGED batch

\* ------------------------------------------------------------------------
\* Node 1: _node_identify_candidates
\* ------------------------------------------------------------------------
\* A variant of lines 87-89 that logs the missing file and raises again.
IdentifyCandidatesReraising ==
    /\ pc = "identify_candidates"
    /\ \E o \in {"ok", "FileNotFoundError", "OtherError"} :
         CASE o = "ok" ->
                /\ state' = [state EXCEPT !.candidates = identify_candidates(source)]
                /\ Goto("confirm_with_llm")
                /\ UNCHANGED log
           [] o = "FileNotFoundError" ->
                /\ pc' = "END"
                /\ result' = "exception"
                /\ log' = log \o <<MsgFileNotFound, MsgUnhandled>>
                /\ UNCHANGED <<state, trace>>
           [] o = "OtherError" ->
                /\ Unhandled
                /\ UNCHANGED state
    /\ UNCHANGED <<source, confirm_vars, prompt_vars, split_vars, disk_vars>>
    /\ UNCHANGED batch

IdentifyCandidates ==
    /\ pc = "identify_candidates"
    /\ \E o \in {"ok", "FileNotFoundError", "OtherError"} :
         CASE o = "ok" ->
                /\ state' = [state EXCEPT !.candidates = identify_candidates(source)]
                /\ Goto("confirm_with_llm")
                /\ UNCHANGED log
           [] o = "FileNotFoundError" ->
                /\ state' = [state EXCEPT !.candidates = <<>>]
                /\ log' = Append(log, MsgFileNotFound)
                /\ Goto("confirm_with_llm")
           [] o = "OtherError" ->
                /\ Unhandled
                /\ UNCHANGED state
    /\ UNCHANGED <<source, confirm_vars, prompt_vars, split_vars, disk_vars>>
    /\ UNCHANGED batch

\* ------------------------------------------------------------------------
\* Node 2: _node_confirm_with_llm
\* ------------------------------------------------------------------------
\* One iteration up to the call: self.llm.invoke(prompt_value)
ConfirmRequest ==
    /\ pc = "confirm_with_llm"
    /\ ci <= Len(state.candidates)
    /\ requests' = Append(requests, state.candidates[ci])
    /\ pc' = "llm_invoke"
    /\ UNCHANGED <<trace, result, log, state, source, confirmed, ci, resp,
                   prompt_vars, split_vars, disk_vars>>
    /\ UNCHANGED batch

\* The call comes back: an exception, or a message with a body
LlmReturn ==
    /\ pc = "llm_invoke"
    /\ \E r \in Responses : resp' = r
    /\ pc' = "judge"
    /\ UNCHANGED <<trace, result, log, state, source, confirmed, ci, requests,
                   prompt_vars, split_vars, disk_vars>>
    /\ UNCHANGED batch

\* A variant of line 116 that puts the new chapter in front.
promote_in_front(chapters, candidate) == <<candidate>> \o chapters

\* confirmed.append((line_num, text))
promote(chapters, candidate) == Append(chapters, candidate)

\* A variant of the loop body without the except clause of line 119.
ConfirmJudgeUncaught ==
    /\ pc = "judge"
    /\ IF classification_raises(resp)
          THEN /\ Unhandled
               /\ UNCHANGED <<confirmed, ci>>
          ELSE /\ confirmed' = IF is_confirmed(resp)
                                  THEN promote(confirmed, state.candidates[ci])
                                  ELSE confirmed
               /\ ci' = ci + 1
               /\ pc' = "confirm_with_llm"
               /\ UNCHANGED <<trace, result, log>>
    /\ resp' = NoResponse
    /\ UNCHANGED <<state, source, requests, prompt_vars, split_vars, disk_vars>>
    /\ UNCHANGED batch

\* A variant of the loop body that asks again for a candidate whose call failed.
ConfirmJudgeRetry ==
    /\ pc = "judge"
    /\ IF classification_raises(resp)
          THEN /\ log' = Append(log, MsgLineFailed(state.candidates[ci][1] + 1))
               /\ UNCHANGED <<confirmed, ci>>
          ELSE /\ confirmed' = IF is_confirmed(resp)
                                  THEN promote(confirmed, state.candidates[ci])
                                  ELSE confirmed
               /\ ci' = ci + 1
               /\ UNCHANGED log
    /\ resp' = NoResponse
    /\ pc' = "confirm_with_llm"
    /\ UNCHANGED <<trace, result, state, source, requests, prompt_vars, split_vars,
                   disk_vars>>
    /\ UNCHANGED batch

\* The rest of the iteration (lines 109-122): the answer is judged and dropped
ConfirmJudge ==
    /\ pc = "judge"
    /\ IF classification_raises(resp)
          THEN /\ log' = Append(log, MsgLineFailed(state.candidates[ci][1] + 1))
               /\ UNCHANGED confirmed
          ELSE /\ confirmed' = IF is_confirmed(resp)
                                  THEN promote(confirmed, state.candidates[ci])
                                  ELSE confirmed
               /\ UNCHANGED log
    /\ resp' = NoResponse
    /\ ci' = ci + 1
    /\ pc' = "confirm_with_llm"
    /\ UNCHANGED <<trace, result, state, source, requests, prompt_vars, split_vars,
                   disk_vars>>
    /\ UNCHANGED batch

\* A variant of line 125 that also replaces candidates by the confirmed list.
ConfirmReturnNarrowing ==
    /\ pc = "confirm_with_llm"
    /\ ci > Len(state.candidates)
    /\ LET st == [state EXCEPT !.confirmed_chapters = confirmed,
                               !.candidates = confirmed] IN
         /\ state' = st
         /\ Goto(after_confirm(st))
    /\ UNCHANGED <<log, source, confirm_vars, prompt_vars, split_vars, disk_vars>>
    /\ UNCHANGED batch

\* The loop is over: return {**state, "confirmed_chapters": confirmed}
ConfirmReturn ==
    /\ pc = "confirm_with_llm"
    /\ ci > Len(state.candidates)
    /\ LET st == [state EXCEPT !.confirmed_chapters = confirmed] IN
         /\ state' = st
         /\ Goto(after_confirm(st))
    /\ UNCHANGED <<log, source, confirm_vars, prompt_vars, split_vars, disk_vars>>
    /\ UNCHANGED batch

\* ------------------------------------------------------------------------
\* Node 3: _node_prompt_user
\* ------------------------------------------------------------------------
\* A variant of the node without the auto_confirm shortcut of lines 129-131.
PromptUserAlwaysAsks ==
    /\ pc = "prompt_user"
    /\ table_shown' = TRUE
    /\ pc' = "input"
    /\ UNCHANGED <<state, trace, result>>
    /\ UNCHANGED <<log, source, confirm_vars, console, split_vars, disk_vars>>
    /\ UNCHANGED batch

\* Lines 129-146: the auto_confirm shortcut, or the preview table
PromptUser ==
    /\ pc = "prompt_user"
    /\ IF state.auto_confirm
          THEN LET st == [state EXCEPT !.user_confirmed = TRUE] IN
               /\ state' = st
               /\ Goto(after_prompt(st))
               /\ UNCHANGED table_shown
          ELSE /\ table_shown' = TRUE
               /\ pc' = "input"
               /\ UNCHANGED <<state, trace, result>>
    /\ UNCHANGED <<log, source, confirm_vars, console, split_vars, disk_vars>>
    /\ UNCHANGED batch

\* A variant of lines 148-155 that asks again after an answer that is
\* neither a yes nor a no.
ReadAnswerAsksAgain ==
    /\ pc = "input"
    /\ \E ev \in ConsoleEvents :
         /\ console' = ev
         /\ IF ev.kind = "EOFError"
               THEN /\ Unhandled
                    /\ UNCHANGED state
               ELSE IF ev.kind = "line" /\ lower(ev.text) \notin {"y", "yes", "n", "no"}
               THEN /\ pc' = "prompt_user"
                    /\ UNCHANGED <<state, trace, result, log>>
               ELSE LET ok == ev.kind = "line" /\ answer_is_yes(ev.text)
                        st == [state EXCEPT !.user_confirmed = ok] IN
                    /\ state' = st
                    /\ Goto(after_prompt(st))
                    /\ UNCHANGED log
    /\ UNCHANGED <<source, confirm_vars, table_shown, split_vars, disk_vars>>
    /\ UNCHANGED batch

\* Lines 148-155: input() comes back with a line, an interrupt or an error
ReadAnswer ==
    /\ pc = "input"
    /\ \E ev \in ConsoleEvents :
         /\ console' = ev
         /\ IF ev.kind = "EOFError"
               THEN /\ Unhandled
                    /\ UNCHANGED state
               ELSE LET ok == ev.kind = "line" /\ answer_is_yes(ev.text)
                        st == [state EXCEPT !.user_confirmed = ok] IN
                    /\ state' = st
                    /\ Goto(after_prompt(st))
                    /\ UNCHANGED log
    /\ UNCHANGED <<source, confirm_vars, table_shown, split_vars, disk_vars>>
    /\ UNCHANGED batch

\* ------------------------------------------------------------------------
\* Node 4: _node_execute_split
\* ------------------------------------------------------------------------
Min(a, b) == IF a < b THEN a ELSE b

\* The list slice s[a:b] for 0 <= a, 0 <= b
slice(s, a, b) == SubSeq(s, a + 1, Min(b, Len(s)))

\* What f.readlines() can see: the file as the detector saw it, or the
\* file as something else left it in between (cut short, or its head removed)
Reads(lines) ==
    {lines} \cup {SubSeq(lines, 1, n) : n \in 0..Len(lines)}
            \cup {SubSeq(lines, 2, Len(lines))}

\* ensure_dir(path): the directories after it succeeded
ensure_dir(existing, path) ==
    IF path \notin existing THEN existing \cup {path} ELSE existing

chapter_indices(chapters) == [k \in 1..Len(chapters) |-> chapters[k][1]]

\* A variant of line 191 that ends every segment at the end of the file.
end_line_eof(chapters, i, lines) == Len(lines)

\* Line 191, i being the 1-based position of the chapter
end_line(chapters, i, lines) ==
    IF i + 1 <= Len(chapters) THEN chapter_indices(chapters)[i + 1] ELSE Len(lines)

\* A variant of lines 190-192 that starts the segment after the title line.
segment_content_after_title(chapters, i, lines) ==
    slice(lines, chapters[i][1] + 1, end_line(chapters, i, lines))

\* Lines 190-192
segment_content(chapters, i, lines) ==
    slice(lines, chapters[i][1], end_line(chapters, i, lines))

\* Line 195, f"{i+1}.txt", for the 1-based position i of the chapter
filename(i) == i

\* A variant of lines 169 and 196 that leaves the task_id out of the path.
full_path_shared(st, i) == <<"splitdata", filename(i)>>

\* Lines 169 and 196: <output_dir>/splitdata/<task_id>/<n>.txt
full_path(st, i) == <<st.task_id, filename(i)>>

\* Lines 221-222: <output_dir>/metadata/<task_id>-metadata.json
metadata_filepath(st) == <<st.output_dir, "metadata", st.task_id>>

\* Line 199 with the separators of line 204
relative_path(task_id, i) == <<"..", "splitdata", task_id, filename(i)>>

\* A variant of lines 178-180 that logs the failure and goes on.
after_prepare_no_return(o) == "write_segments"

\* Lines 178-181: a failure returns from the node, success goes on to the loop
after_prepare(o) == IF o = "ok" THEN "write_segments" ELSE "END"

\* Lines 172-180: the directories and the read of the source
SplitPrepare ==
    /\ pc = "execute_split"
    /\ \E o \in {"ok", "makedirs_split_fails", "makedirs_metadata_fails", "read_fails"} :
         LET d1 == ensure_dir(dirs, split_data_path(state))
             d2 == ensure_dir(d1, metadata_path(state)) IN
         /\ CASE o = "makedirs_split_fails" ->
                   /\ split_data_path(state) \notin dirs
                   /\ UNCHANGED <<dirs, made, all_lines>>
              [] o = "makedirs_metadata_fails" ->
                   /\ metadata_path(state) \notin d1
                   /\ dirs' = d1 /\ made' = made \cup (d1 \ dirs)
                   /\ UNCHANGED all_lines
              [] o = "read_fails" ->
                   /\ dirs' = d2 /\ made' = made \cup (d2 \ dirs)
                   /\ UNCHANGED all_lines
              [] o = "ok" ->
                   /\ dirs' = d2 /\ made' = made \cup (d2 \ dirs)
                   /\ \E lines \in Reads(source) : all_lines' = lines
         /\ log' = IF o = "ok" THEN log ELSE Append(log, MsgPrepareFailed)
         /\ IF after_prepare(o) = "END"
               THEN Goto("END")
               ELSE pc' = after_prepare(o) /\ UNCHANGED <<trace, result>>
    /\ UNCHANGED <<state, source, confirm_vars, prompt_vars, wi, relative_paths,
                   chapter_titles, files, metadata>>
    /\ UNCHANGED batch

\* A variant of lines 201-205 that records the title before the write is tried.
titles_after_write_always(titles, title, o) == Append(titles, title)

\* chapter_titles after the try block of lines 201-207
titles_after_write(titles, title, o) == IF o = "ok" THEN Append(titles, title) ELSE titles

\* relative_paths after the try block of lines 201-207
paths_after_write(paths, path, o) == IF o = "ok" THEN Append(paths, path) ELSE paths

\* Lines 189-207: one iteration of the loop over chapters
WriteSegment ==
    /\ pc = "write_segments"
    /\ wi <= Len(state.confirmed_chapters)
    /\ LET chapters == state.confirmed_chapters
           content  == segment_content(chapters, wi, all_lines)
           path     == full_path(state, wi) IN
       \E o \in {"ok", "open_fails", "write_fails"} :
         /\ CASE o = "ok" ->
                   files' = (path :> content) @@ files
              [] o = "open_fails" ->
                   UNCHANGED files
              [] o = "write_fails" ->
                   \E n \in 0..(Len(content) - 1) :
                      files' = (path :> SubSeq(content, 1, n)) @@ files
         /\ relative_paths' = paths_after_write(relative_paths,
                                                relative_path(state.task_id, wi), o)
         /\ chapter_titles' = titles_after_write(chapter_titles, chapters[wi][2], o)
         /\ log' = IF o = "ok" THEN log ELSE Append(log, MsgWriteFailed(filename(wi)))
    /\ wi' = wi + 1
    /\ UNCHANGED <<pc, trace, result, state, source, confirm_vars, prompt_vars,
                   all_lines, dirs, made, metadata>>
    /\ UNCHANGED batch

\* Lines 209-218
metadata_content(st, paths, titles) ==
    [source_filename |-> st.filepath, split_files |-> paths, chapter_titles |-> titles,
     task_id |-> st.task_id, start_time |-> st.start_time, end_time |-> EndTime]

\* A variant of lines 209-231 that gives up the metadata after a failed segment.
WriteMetadataUnlessFailure ==
    /\ pc = "write_segments"
    /\ wi > Len(state.confirmed_chapters)
    /\ LET content == metadata_content(state, relative_paths, chapter_titles) IN
       IF Len(relative_paths) < Len(state.confirmed_chapters)
          THEN UNCHANGED <<metadata, log>>
          ELSE \E o \in {"ok", "open_fails", "write_fails"} :
                 /\ CASE o = "ok" ->
                           metadata' = Append(metadata, [complete |-> TRUE, path |-> metadata_filepath(state),
                                               content |-> content])
                      [] o = "open_fails" ->
                           UNCHANGED metadata
                      [] o = "write_fails" ->
                           metadata' = Append(metadata, [complete |-> FALSE, path |-> metadata_filepath(state),
                                               content |-> content])
                 /\ log' = IF o = "ok" THEN log ELSE Append(log, MsgMetaFailed)
    /\ Goto("END")
    /\ UNCHANGED <<state, source, confirm_vars, prompt_vars, split_vars, dirs, made, files>>
    /\ UNCHANGED batch

\* Lines 209-231: the metadata file, then return state
WriteMetadata ==
    /\ pc = "write_segments"
    /\ wi > Len(state.confirmed_chapters)
    /\ LET content == metadata_content(state, relative_paths, chapter_titles) IN
       \E o \in {"ok", "open_fails", "write_fails"} :
         /\ CASE o = "ok" ->
                   metadata' = Append(metadata, [complete |-> TRUE, path |-> metadata_filepath(state),
                                               content |-> content])
              [] o = "open_fails" ->
                   UNCHANGED metadata
              [] o = "write_fails" ->
                   metadata' = Append(metadata, [complete |-> FALSE, path |-> metadata_filepath(state),
                                               content |-> content])
         /\ log' = IF o = "ok" THEN log ELSE Append(log, MsgMetaFailed)
    /\ Goto("END")
    /\ UNCHANGED <<state, source, confirm_vars, prompt_vars, split_vars, dirs, made, files>>
    /\ UNCHANGED batch

\* ------------------------------------------------------------------------
\* main(): the batch over the .txt files found under BOOKS_DIR
\* ------------------------------------------------------------------------
\* The files a walk can find (a single file is a walk that finds one)
BatchFiles == {<<PlainLine>>, <<BlankLine, ChapterLine>>}

BatchLists == UNION {[1..n -> BatchFiles] : n \in 0..MaxBatch}

\* The values str(uuid.uuid4()) can take
TaskIds == {"task-1", "task-2", "task-3", "task-4", "task-5"}

\* The task_ids of the runs that came back
UsedIds == {batch.done[j].task_id : j \in 1..Len(batch.done)}

\* str(uuid.uuid4()): a value no earlier run had
uuid4 == CHOOSE id \in TaskIds : id \notin UsedIds

\* Lines 40-45 of main: the walk has found the files
MainStart ==
    /\ pc = "idle"
    /\ \E paths \in BatchLists :
         batch' = [active |-> TRUE, paths |-> paths, found_files_count |-> 0, done |-> <<>>]
    /\ pc' = "main_loop"
    /\ UNCHANGED <<trace, result, log, state, source, confirm_vars, prompt_vars,
                   split_vars, disk_vars>>

\* Lines 47-54 of main and 255-301 of run: splitter.run(file_path, auto_confirm=True)
MainRun ==
    /\ pc = "main_loop"
    /\ batch.found_files_count < Len(batch.paths)
    /\ batch' = [batch EXCEPT !.found_files_count = @ + 1]
    /\ source' = batch.paths[batch.found_files_count + 1]
    /\ \E exists \in BOOLEAN :
         IF ~exists
            THEN /\ pc' = "END"
                 /\ result' = "input_missing"
                 /\ log' = Append(log, MsgInputMissing)
                 /\ trace' = <<>>
                 /\ UNCHANGED state
            ELSE /\ state' = [initial_state(TRUE) EXCEPT !.task_id = uuid4]
                 /\ pc' = "identify_candidates"
                 /\ trace' = <<"identify_candidates">>
                 /\ result' = "none"
                 /\ UNCHANGED log
    /\ confirmed' = <<>>
    /\ ci' = 1
    /\ resp' = NoResponse
    /\ requests' = <<>>
    /\ table_shown' = FALSE
    /\ console' = NoConsole
    /\ all_lines' = <<>>
    /\ wi' = 1
    /\ relative_paths' = <<>>
    /\ chapter_titles' = <<>>
    /\ made' = {}
    /\ UNCHANGED <<dirs, files, metadata>>

\* Lines 53-56 of main: run() came back, the walk goes on
MainReturn ==
    /\ pc = "END"
    /\ batch.active
    /\ batch' = [batch EXCEPT !.done = Append(@,
                    [task_id |-> IF result = "input_missing" THEN "" ELSE state.task_id,
                     result |-> result])]
    /\ pc' = "main_loop"
    /\ UNCHANGED <<trace, result, log, state, source, confirm_vars, prompt_vars,
                   split_vars, disk_vars>>

\* Lines 58-60 of main: no file is left
MainDone ==
    /\ pc = "main_loop"
    /\ batch.found_files_count = Len(batch.paths)
    /\ pc' = "main_done"
    /\ UNCHANGED <<trace, result, log, state, source, confirm_vars, prompt_vars,
                   split_vars, disk_vars, batch>>

Next ==
    \/ Run
    \/ IdentifyCandidates
    \/ ConfirmRequest
    \/ LlmReturn
    \/ ConfirmJudge
    \/ ConfirmReturn
    \/ PromptUser
    \/ ReadAnswer
    \/ SplitPrepare
    \/ WriteSegment
    \/ WriteMetadata

Spec == Init /\ [][Next]_vars

\* run() called once by any caller, or main() calling it for every file found
\* The steps run() and the nodes take by themselves: the interpreter goes on
\* to the next statement, none of them waits for anything
ProgramSteps ==
    \/ IdentifyCandidates
    \/ ConfirmRequest
    \/ ConfirmJudge
    \/ ConfirmReturn
    \/ PromptUser
    \/ SplitPrepare
    \/ WriteSegment
    \/ WriteMetadata

\* The two calls a run waits in: llm.invoke (line 106) and input (line 149).
\* Each of them comes back, with a value or with an exception.
CallsReturn == WF_vars(LlmReturn) /\ WF_vars(ReadAnswer)

\* run() called on a file of at most MaxLiveLines lines
RunLive == Run /\ Len(source') <= MaxLiveLines

NextLive == RunLive \/ ProgramSteps \/ LlmReturn \/ ReadAnswer

\* One call of run() that is not stopped from outside
SpecLive == Init /\ [][NextLive]_vars /\ WF_vars(ProgramSteps) /\ CallsReturn

NextMain ==
    \/ Next
    \/ MainStart
    \/ MainRun
    \/ MainReturn
    \/ MainDone

SpecMain == Init /\ [][NextMain]_vars

\* ------------------------------------------------------------------------
\* Properties
\* ------------------------------------------------------------------------
ConfirmPositions == {"confirm_with_llm", "llm_invoke", "judge"}
PromptPositions  == {"prompt_user", "input"}

Entered(node) == node \in Range(trace)

\* The node has run and returned (or raised)
ConfirmOver == Entered("confirm_with_llm") /\ pc \notin ConfirmPositions
PromptOver  == Entered("prompt_user") /\ pc \notin PromptPositions

NothingWritten == made = {} /\ files = <<>> /\ metadata = <<>>

\* C1: once the Confirmer has returned, the Human Gate is the next stage
\* exactly when confirmed_chapters is non-empty; with an empty
\* confirmed_chapters the run is at END, neither the Human Gate nor the
\* Splitter/Writer was entered and nothing was created on disk; an empty
\* candidate list issues no classification request.
C1_ConfirmGuard ==
    ConfirmOver =>
        /\ Entered("prompt_user") <=> state.confirmed_chapters # <<>>
        /\ state.confirmed_chapters = <<>> =>
              /\ pc = "END"
              /\ ~Entered("prompt_user")
              /\ ~Entered("execute_split")
              /\ NothingWritten
        /\ state.candidates = <<>> => requests = <<>>

C1_Witness ==
    /\ ConfirmOver
    /\ pc = "END"
    /\ Len(requests) >= 2
    /\ state.confirmed_chapters = <<>>

\* C2: once the Human Gate has returned, the Splitter/Writer is entered
\* exactly when user_confirmed is true, which it is whenever auto_confirm
\* is set; otherwise the run is at END.
C2_PromptGuard ==
    PromptOver =>
        /\ Entered("execute_split") <=> state.user_confirmed
        /\ state.auto_confirm => state.user_confirmed
        /\ ~state.user_confirmed => pc = "END"

C2_Witness ==
    /\ PromptOver
    /\ ~state.auto_confirm
    /\ console = [kind |-> "line", text |-> "n"]
    /\ pc = "END"
    /\ ~Entered("execute_split")

\* C3: at most one metadata record is ever written in a run; a directory,
\* a segment file or a metadata record of the run exists only after the
\* Human Gate returned confirmed = true; a run whose Human Gate rejected
\* has written nothing.
C3_WriteOnlyAfterConsent ==
    /\ Len(metadata) <= 1
    /\ ~NothingWritten => Entered("prompt_user") /\ PromptOver /\ state.user_confirmed
    /\ (PromptOver /\ ~state.user_confirmed) => NothingWritten

C3_Witness ==
    /\ pc = "END"
    /\ Len(metadata) = 1
    /\ metadata[1].complete
    /\ DOMAIN files # {}
    /\ ~state.auto_confirm
    /\ state.user_confirmed

Logged(m) == m \in Range(log)

Chapters == state.confirmed_chapters

\* The write of n.txt was tried and did not fail
WriteSucceeded(n) == n \in 1..(wi - 1) /\ ~Logged(MsgWriteFailed(n))

\* The 0-based line numbers that belong to chapter i of a file of N lines
SegmentLines(i) ==
    LET upper == IF i < Len(Chapters) THEN Chapters[i + 1][1] ELSE Len(all_lines) IN
    {l \in 0..(Len(all_lines) - 1) : Chapters[i][1] <= l /\ l < upper}

\* The lines of all_lines numbered first, first + 1, ... (count of them)
LinesFrom(first, count) == [j \in 1..count |-> all_lines[first + j]]

RECURSIVE ConcatFiles(_)
ConcatFiles(n) == IF n = 0 THEN <<>> ELSE ConcatFiles(n - 1) \o files[<<TaskId, n>>]

AllSegmentsWritten ==
    /\ pc = "END"
    /\ wi = Len(Chapters) + 1
    /\ \A n \in 1..Len(Chapters) : WriteSucceeded(n)

\* C4: every segment whose write succeeded holds exactly the lines of
\* all_lines from its chapter's line_index up to the next chapter's
\* line_index (the last one up to the end of the file); the segments'
\* line ranges are pairwise disjoint; and when all writes succeeded the
\* files concatenated in order are exactly the lines from the first
\* confirmed line_index to the end, so nothing before it is written and
\* nothing after it is missing or repeated.
C4_SegmentsPartitionTail ==
    /\ \A n \in 1..Len(Chapters) :
          WriteSucceeded(n) =>
              files[<<TaskId, n>>] = LinesFrom(Chapters[n][1], Cardinality(SegmentLines(n)))
    /\ \A m, n \in 1..Len(Chapters) :
          m # n => SegmentLines(m) \cap SegmentLines(n) = {}
    /\ (AllSegmentsWritten /\ Chapters # <<>>) =>
          LET first == Chapters[1][1]
              tail  == {l \in 0..(Len(all_lines) - 1) : first <= l} IN
          /\ UNION {SegmentLines(n) : n \in 1..Len(Chapters)} = tail
          /\ ConcatFiles(Len(Chapters)) = LinesFrom(first, Cardinality(tail))

C4_Witness ==
    /\ AllSegmentsWritten
    /\ Len(Chapters) >= 2
    /\ Chapters[1][1] >= 1
    /\ all_lines = source
    /\ Len(all_lines) > Chapters[Len(Chapters)][1]

\* s is t with some entries left out, the others in the same order
IsSubsequence(s, t) ==
    \E f \in [1..Len(s) -> 1..Len(t)] :
        /\ \A a, b \in 1..Len(s) : a < b => f[a] < f[b]
        /\ \A a \in 1..Len(s) : s[a] = t[f[a]]

NoRepeat(s) == \A a, b \in 1..Len(s) : a # b => s[a] # s[b]

\* C5: confirmed_chapters (and the list the Confirmer is building) is a
\* subsequence of candidates: each entry is a candidate, the entries keep
\* the order of candidates, and none occurs twice.
C5_ConfirmedSubsequence ==
    /\ IsSubsequence(state.confirmed_chapters, state.candidates)
    /\ IsSubsequence(confirmed, state.candidates)
    /\ NoRepeat(state.confirmed_chapters)
    /\ NoRepeat(confirmed)

C5_Witness ==
    /\ Len(state.candidates) = 3
    /\ state.confirmed_chapters = <<state.candidates[1], state.candidates[3]>>

\* C6: the candidate list is strictly ascending by line_index, holds no
\* blank line, and each line_index is the 0-based position of its line in
\* the file, blank lines counted: the text is that line, trimmed.
C6_CandidatesAscending ==
    LET c == state.candidates IN
    /\ \A a, b \in 1..Len(c) : a < b => c[a][1] < c[b][1]
    /\ \A a \in 1..Len(c) :
          /\ c[a][1] \in 0..(Len(source) - 1)
          /\ c[a][2] = strip(source[c[a][1] + 1])
          /\ c[a][2].len > 0

C6_Witness ==
    /\ Len(source) = 3
    /\ source[1] = BlankLine
    /\ Len(state.candidates) = 2
    /\ state.candidates[1][1] = 1
    /\ state.candidates[2][1] = 2

\* C7: a candidate whose classification failed is not confirmed, and the
\* failure does not end the stage: while the Confirmer runs the run has
\* not come back, and once it is over every candidate has had its own
\* request, in order, and no exception came out of the stage.
C7_FailureIsolated ==
    LET c == state.candidates IN
    /\ \A j \in 1..Len(c) :
          Logged(MsgLineFailed(c[j][1] + 1)) =>
              /\ c[j] \notin Range(confirmed)
              /\ c[j] \notin Range(state.confirmed_chapters)
    /\ pc \in ConfirmPositions => result = "none"
    /\ ConfirmOver =>
          /\ requests = c
          /\ state.confirmed_chapters = confirmed
          /\ result = "exception" => Entered("prompt_user")

C7_Witness ==
    /\ ConfirmOver
    /\ Len(state.candidates) = 3
    /\ Logged(MsgLineFailed(state.candidates[2][1] + 1))
    /\ state.confirmed_chapters = <<state.candidates[1], state.candidates[3]>>
    /\ pc = "prompt_user"

\* The one answer the claim accepts: {"is_chapter_title": true}
TrueAnswer ==
    [status |-> "ok",
     content |-> [syntax |-> "json",
                  value |-> JObj([k \in {FieldName} |-> JBool(TRUE)])]]

\* C8: a candidate is promoted only when the response body is a JSON
\* object whose is_chapter_title field is the boolean true; with any other
\* response the list of confirmed chapters stays as it was.
C8_OnlyBooleanTrue ==
    [][pc = "judge" =>
          IF resp = TrueAnswer
             THEN confirmed' = Append(confirmed, state.candidates[ci])
             ELSE confirmed' = confirmed]_vars

\* The numbers n of the files n.txt whose write succeeded, ascending
RECURSIVE SucceededUpTo(_)
SucceededUpTo(n) ==
    IF n = 0 THEN <<>>
    ELSE IF WriteSucceeded(n) THEN Append(SucceededUpTo(n - 1), n)
    ELSE SucceededUpTo(n - 1)

PathsOf(ns)  == [j \in 1..Len(ns) |-> <<"..", "splitdata", TaskId, ns[j]>>]
TitlesOf(ns) == [j \in 1..Len(ns) |-> Chapters[ns[j]][2]]

\* C9: a failed segment write does not stop the loop: once the metadata is
\* written every chapter has had its write tried; split_files and
\* chapter_titles have the same length and list, in ascending order,
\* exactly the segments whose write succeeded, each as the path of n.txt
\* with the title of the n-th confirmed chapter; every listed file exists.
C9_MetadataListsSuccessfulWrites ==
    LET ok == SucceededUpTo(wi - 1) IN
    /\ Len(relative_paths) = Len(chapter_titles)
    /\ relative_paths = PathsOf(ok)
    /\ chapter_titles = TitlesOf(ok)
    /\ \A j \in 1..Len(ok) : <<TaskId, ok[j]>> \in DOMAIN files
    /\ metadata # <<>> =>
          /\ wi = Len(Chapters) + 1
          /\ metadata[1].content.split_files = PathsOf(ok)
          /\ metadata[1].content.chapter_titles = TitlesOf(ok)
          /\ Len(metadata[1].content.split_files) = Len(metadata[1].content.chapter_titles)

C9_Witness ==
    /\ pc = "END"
    /\ metadata # <<>>
    /\ metadata[1].complete
    /\ Len(Chapters) = 3
    /\ WriteSucceeded(1)
    /\ ~WriteSucceeded(2)
    /\ WriteSucceeded(3)
    /\ Chapters[1][2] # Chapters[3][2]

\* The GraphState the Splitter/Writer was given
StateBeforeSplit ==
    [initial_state(state.auto_confirm) EXCEPT
        !.candidates = identify_candidates(source),
        !.confirmed_chapters = confirmed,
        !.user_confirmed = TRUE]

\* C10: when a directory cannot be created or the source cannot be read,
\* the Splitter/Writer stops there: no segment write is tried, no segment
\* file and no metadata record exists, the GraphState is the one the stage
\* was given, and the run is at END having come back without an exception.
C10_PrepareFailureAborts ==
    Logged(MsgPrepareFailed) =>
        /\ pc = "END"
        /\ result = "finished"
        /\ wi = 1
        /\ files = <<>>
        /\ metadata = <<>>
        /\ ~Logged(MsgUnhandled)
        /\ state = StateBeforeSplit

C10_Witness ==
    /\ Logged(MsgPrepareFailed)
    /\ pc = "END"
    /\ split_data_path(state) \in made
    /\ metadata_path(state) \in made
    /\ Len(Chapters) >= 2

\* The directories were made and the source was read
PrepareSucceeded ==
    /\ Entered("execute_split")
    /\ pc \in {"write_segments", "END"}
    /\ ~Logged(MsgPrepareFailed)

\* The metadata file holds the record of this run, listing the written segments
MetadataOnDisk ==
    /\ Len(metadata) = 1
    /\ metadata[1].complete
    /\ metadata[1].content.task_id = state.task_id
    /\ metadata[1].content.split_files = PathsOf(SucceededUpTo(Len(Chapters)))
    /\ metadata[1].content.chapter_titles = TitlesOf(SucceededUpTo(Len(Chapters)))

\* C11 as stated: whenever the directories were made and the source was
\* read, the run ends with a metadata record on disk for its task_id that
\* lists the successfully written segments.
C11_MetadataAlwaysWritten ==
    (pc = "END" /\ PrepareSucceeded) => MetadataOnDisk

\* C11 as amended: whenever the directories were made and the source was
\* read, whatever segment writes failed, the run ends either with the
\* metadata record of its task_id on disk, listing exactly the segments
\* whose write succeeded, or with the failure of the metadata write
\* logged and no complete record.
C11_MetadataWrittenUnlessItsWriteFails ==
    (pc = "END" /\ PrepareSucceeded) =>
        /\ wi = Len(Chapters) + 1
        /\ IF Logged(MsgMetaFailed)
              THEN \A j \in 1..Len(metadata) : ~metadata[j].complete
              ELSE MetadataOnDisk

C11_Witness ==
    /\ pc = "END"
    /\ PrepareSucceeded
    /\ Len(Chapters) = 2
    /\ ~WriteSucceeded(1)
    /\ WriteSucceeded(2)
    /\ MetadataOnDisk

WritesAllSucceeded ==
    /\ ~Logged(MsgPrepareFailed)
    /\ ~Logged(MsgMetaFailed)
    /\ \A n \in 1..Len(Chapters) : ~Logged(MsgWriteFailed(n))

\* C12: with auto_confirm set the Human Gate prints no table, reads no
\* console input and returns user_confirmed = true; such a run with k >= 1
\* confirmed chapters and no failed write ends with exactly the files
\* 1.txt .. k.txt and exactly one metadata file.
C12_AutoConfirmUnattended ==
    state.auto_confirm =>
        /\ ~table_shown
        /\ console = NoConsole
        /\ pc # "input"
        /\ PromptOver => state.user_confirmed
        /\ (pc = "END" /\ ConfirmOver /\ Len(Chapters) >= 1 /\ WritesAllSucceeded) =>
              /\ DOMAIN files = {<<state.task_id, n>> : n \in 1..Len(Chapters)}
              /\ Len(metadata) = 1
              /\ metadata[1].complete

C12_Witness ==
    /\ state.auto_confirm
    /\ pc = "END"
    /\ Len(Chapters) = 3
    /\ WritesAllSucceeded
    /\ Cardinality(DOMAIN files) = 3
    /\ Len(metadata) = 1

\* C13: without auto_confirm the Human Gate returns user_confirmed = true
\* only for an affirmative answer; for any other line and for an interrupt
\* it returns false, and then the run is at END, has written nothing and
\* has come back to its caller without an exception.
C13_GateRejectsAllButYes ==
    (~state.auto_confirm /\ PromptOver) =>
        /\ console # NoConsole
        /\ state.user_confirmed <=>
              (console.kind = "line" /\ console.text \in {"y", "Y", "yes", "YES"})
        /\ (console.kind \in {"line", "KeyboardInterrupt"} /\ ~state.user_confirmed) =>
              /\ pc = "END"
              /\ result = "finished"
              /\ NothingWritten
        /\ console.kind = "KeyboardInterrupt" =>
              /\ ~state.user_confirmed
              /\ ~Logged(MsgUnhandled)

C13_Witness ==
    /\ ~state.auto_confirm
    /\ PromptOver
    /\ console.kind = "KeyboardInterrupt"
    /\ pc = "END"
    /\ Len(Chapters) >= 1

SourceMissingAtEntry  == Logged(MsgInputMissing)
SourceMissingAtDetect == Logged(MsgFileNotFound)

\* C14 as stated: when the source file is missing the Detector runs and
\* yields no candidate, the Confirmer runs with no request, the guard ends
\* the run, and nothing is written.
C14_MissingSourceRunsPipeline ==
    (pc = "END" /\ (SourceMissingAtEntry \/ SourceMissingAtDetect)) =>
        /\ Entered("identify_candidates")
        /\ Entered("confirm_with_llm")
        /\ state.candidates = <<>>
        /\ requests = <<>>
        /\ result = "finished"
        /\ NothingWritten

\* C14 as amended: a source file that is missing when run() is called makes
\* run() return at once, no stage entered; one that is missing when the
\* Detector opens it gives an empty candidate list without an exception,
\* the Confirmer then runs with no request and the guard ends the run; in
\* both cases nothing is written.
C14_MissingSourceEndsQuietly ==
    /\ SourceMissingAtEntry =>
          /\ pc = "END"
          /\ result = "input_missing"
          /\ trace = <<>>
          /\ requests = <<>>
          /\ NothingWritten
    /\ SourceMissingAtDetect =>
          /\ state.candidates = <<>>
          /\ requests = <<>>
          /\ ~Logged(MsgUnhandled)
          /\ Entered("confirm_with_llm")
          /\ ~Entered("prompt_user")
          /\ ConfirmOver => (pc = "END" /\ result = "finished")
          /\ NothingWritten

C14_Witness ==
    /\ SourceMissingAtDetect
    /\ ConfirmOver
    /\ pc = "END"
    /\ Len(source) >= 1
    /\ identify_candidates(source) # <<>>

Stages == <<"identify_candidates", "confirm_with_llm", "prompt_user", "execute_split">>

\* The node a position belongs to
NodeAt(p) ==
    CASE p \in ConfirmPositions   -> "confirm_with_llm"
      [] p \in PromptPositions    -> "prompt_user"
      [] p = "write_segments"     -> "execute_split"
      [] OTHER                    -> p

StagesInOrder ==
    /\ Len(trace) <= Len(Stages)
    /\ trace = SubSeq(Stages, 1, Len(trace))
    /\ pc \notin {"idle", "END"} => (trace # <<>> /\ NodeAt(pc) = trace[Len(trace)])

\* C16: the stages a run has entered are always a prefix of IDENTIFY,
\* CONFIRM, PROMPT, SPLIT, each entered once and the one running being the
\* last entered; and no step is taken from END.
C16_StagesForwardOnly == [][pc # "END" /\ StagesInOrder']_vars

C16_Witness ==
    /\ pc = "END"
    /\ trace = Stages
    /\ result = "finished"

\* C17: the requests issued are the candidates in order, each once; the
\* request for a candidate is issued only when every earlier one has had
\* its outcome judged, so at most one is outstanding; a failed one is not
\* issued again; when the Confirmer is over every candidate was asked once.
C17_OneRequestPerCandidate ==
    /\ Len(requests) <= Len(state.candidates)
    /\ requests = SubSeq(state.candidates, 1, Len(requests))
    /\ pc = "confirm_with_llm" => (Len(requests) = ci - 1 /\ resp = NoResponse)
    /\ pc = "llm_invoke" => (Len(requests) = ci /\ resp = NoResponse)
    /\ pc = "judge" => (Len(requests) = ci /\ resp \in Responses)
    /\ ConfirmOver => requests = state.candidates

C17_Witness ==
    /\ ConfirmOver
    /\ Len(requests) = 3
    /\ Logged(MsgLineFailed(state.candidates[1][1] + 1))
    /\ Logged(MsgLineFailed(state.candidates[3][1] + 1))

\* C18: the Detector changes only candidates, the Confirmer only
\* confirmed_chapters, the Human Gate only user_confirmed, the
\* Splitter/Writer no field; filepath, output_dir, auto_confirm, task_id
\* and start_time never change once run() has set them.
C18_StagesChangeOwnField ==
    [][/\ pc = "identify_candidates" =>
             state' = [state EXCEPT !.candidates = state'.candidates]
       /\ pc \in ConfirmPositions =>
             state' = [state EXCEPT !.confirmed_chapters = state'.confirmed_chapters]
       /\ pc \in PromptPositions =>
             state' = [state EXCEPT !.user_confirmed = state'.user_confirmed]
       /\ pc \in {"execute_split", "write_segments"} => state' = state
       /\ pc # "idle" =>
             /\ state'.filepath = state.filepath
             /\ state'.output_dir = state.output_dir
             /\ state'.auto_confirm = state.auto_confirm
             /\ state'.task_id = state.task_id
             /\ state'.start_time = state.start_time]_vars

C18_Witness ==
    /\ pc = "END"
    /\ trace = Stages
    /\ Len(state.candidates) = 3
    /\ Len(state.confirmed_chapters) = 1
    /\ state.user_confirmed
    /\ ~state.auto_confirm
    /\ metadata # <<>>

\* C20: when the Splitter/Writer reads the file as the Detector saw it,
\* every written segment is non-empty and its first line, trimmed, is the
\* title recorded for it in chapter_titles and in the metadata.
C20_SegmentStartsWithTitle ==
    (all_lines = source /\ PrepareSucceeded) =>
        LET ok == SucceededUpTo(wi - 1) IN
        /\ Len(chapter_titles) = Len(ok)
        /\ \A j \in 1..Len(ok) :
              LET segment == files[<<state.task_id, ok[j]>>] IN
              /\ segment # <<>>
              /\ strip(segment[1]) = chapter_titles[j]
              /\ segment[1] = source[Chapters[ok[j]][1] + 1]
              /\ metadata # <<>> => strip(segment[1]) = metadata[1].content.chapter_titles[j]

C20_Witness ==
    /\ pc = "END"
    /\ all_lines = source
    /\ Len(source) = 3
    /\ source[1] = BlankLine
    /\ source[2] = ChapterLine
    /\ Len(Chapters) = 1
    /\ WriteSucceeded(1)
    /\ metadata # <<>>
    /\ metadata[1].content.chapter_titles = <<strip(ChapterLine)>>

\* The ways run() comes back to its caller without raising
NormalReturns == {"finished", "exception", "input_missing"}

\* C15: run() always comes back without raising, an exception of a stage
\* being caught and logged inside run(); and main() starts and finishes a
\* run for every file it found, whatever the earlier runs did.
C15_RunNeverRaises ==
    /\ pc = "END" => result \in NormalReturns
    /\ result = "exception" => Logged(MsgUnhandled)
    /\ \A j \in 1..Len(batch.done) : batch.done[j].result \in NormalReturns
    /\ batch.active =>
          /\ batch.found_files_count <= Len(batch.paths)
          /\ Len(batch.done) <= batch.found_files_count
          /\ pc \in {"main_loop", "main_done"} => Len(batch.done) = batch.found_files_count
          /\ pc = "main_done" => Len(batch.done) = Len(batch.paths)

C15_Witness ==
    /\ pc = "main_done"
    /\ Len(batch.paths) = 2
    /\ batch.done[1].result = "exception"
    /\ batch.done[2].result = "finished"
    /\ DOMAIN files # {}
    /\ Logged(MsgWriteFailed(1))

\* A run of the batch is under way or has just ended, with a task_id of its own
RunHasTaskId ==
    /\ pc \notin {"idle", "main_loop", "main_done"}
    /\ result # "input_missing"

OwnTaskIds ==
    /\ \A j, k \in 1..Len(batch.done) :
          (j # k /\ batch.done[j].task_id # "") =>
              batch.done[j].task_id # batch.done[k].task_id
    /\ RunHasTaskId => state.task_id \notin UsedIds
    /\ \A key \in DOMAIN files : key[1] \in UsedIds \cup {state.task_id}
    /\ \A a, b \in 1..Len(metadata) : a # b => metadata[a].path # metadata[b].path
    /\ \A a \in 1..Len(metadata) :
          /\ metadata[a].path = <<OutputDir, "metadata", metadata[a].content.task_id>>
          /\ metadata[a].content.task_id \in UsedIds \cup {state.task_id}

\* C19: over the runs of a batch every run has a task_id no other run
\* has; a step creates segment files only under the task_id of the run
\* under way and writes only that run's metadata file, and it leaves every
\* segment file and every metadata record of an earlier run as it was.
C19_RunsKeepApart ==
    [][/\ \A key \in DOMAIN files :
             /\ key \in DOMAIN files'
             /\ key[1] \in UsedIds => files'[key] = files[key]
       /\ \A key \in DOMAIN files' \ DOMAIN files : key[1] = state.task_id
       /\ Len(metadata') >= Len(metadata)
       /\ SubSeq(metadata', 1, Len(metadata)) = metadata
       /\ Len(metadata') > Len(metadata) =>
             /\ Len(metadata') = Len(metadata) + 1
             /\ metadata'[Len(metadata')].path = <<OutputDir, "metadata", state.task_id>>
       /\ OwnTaskIds']_vars

C19_Witness ==
    /\ pc = "main_done"
    /\ Len(batch.done) = 2
    /\ batch.paths[1] = batch.paths[2]
    /\ batch.done[1].task_id # batch.done[2].task_id
    /\ <<batch.done[1].task_id, 1>> \in DOMAIN files
    /\ <<batch.done[2].task_id, 1>> \in DOMAIN files
    /\ Len(metadata) = 2

\* The positions at which a run is inside a call that may take any time
Waiting == pc \in {"llm_invoke", "input"}

\* The work a run has done is within what its input allows
WorkBounded ==
    /\ ci <= Len(state.candidates) + 1
    /\ Len(requests) <= Len(state.candidates)
    /\ wi <= Len(Chapters) + 1
    /\ Cardinality(DOMAIN files) <= wi - 1
    /\ Len(relative_paths) <= wi - 1
    /\ Len(metadata) <= 1
    /\ Len(metadata) = 1 => (pc = "END" /\ wi = Len(Chapters) + 1)

\* C21: when llm.invoke and input always come back, a run that has started
\* reaches END; on the way it issues at most one request per candidate,
\* tries at most one write per confirmed chapter and one metadata write,
\* and at every position other than inside those two calls it has a step
\* of its own to take.
C21_RunReachesEnd ==
    /\ [](WorkBounded)
    /\ []((pc \notin {"idle", "END"} /\ ~Waiting) => ENABLED ProgramSteps)
    /\ (pc # "idle") ~> (pc = "END")

C21_Witness ==
    /\ pc = "END"
    /\ result = "finished"
    /\ Len(requests) = 2
    /\ Len(Chapters) = 2
    /\ console.kind = "line"
    /\ wi = 3
    /\ Len(metadata) = 1

====
